---- MODULE Spec2Model ----
(***************************************************************************)
(* Model of kube-core's CrdMerger (src/kube-core/src/crd.rs, module v1):   *)
(* the builder (new / served / root) and the terminal merge operation.     *)
(* Vec indices are 1-based here: versions[1] models Rust's versions[0].    *)
(***************************************************************************)
EXTENDS Integers, Sequences, FiniteSets, TLC

VARIABLES crds, served, root, pc, result

vars == <<crds, served, root, pc, result>>

(* ---------------- bounds and input universes ---------------- *)
MaxCrds == 3
MaxVersions == 2

VersionNames == {"v1", "v2"}
Schemas == {"s1", "s2"}

(* Option<String> *)
None == [tag |-> "None", val |-> ""]
Some(s) == [tag |-> "Some", val |-> s]

(* CustomResourceDefinitionVersion: name, served, storage, schema payload *)
Version(n, s) == [name |-> n, served |-> TRUE, storage |-> TRUE, schema |-> s]

(* CustomResourceDefinition: spec.group, spec.names.*, spec.versions *)
Crd(g, k, p, vs) ==
  [spec |-> [group |-> g,
             names |-> [kind |-> k, plural |-> p, singular |-> "foo",
                        shortNames |-> <<"f">>],
             versions |-> vs]]

(* Result<Crd, CrdError>; Panic is the abnormal termination of the call *)
Ok(c) == [tag |-> "Ok", crd |-> c, arg |-> ""]
Err(e) == [tag |-> e, crd |-> <<>>, arg |-> ""]
ErrArg(e, a) == [tag |-> e, crd |-> <<>>, arg |-> a]
Panic == [tag |-> "Panic", crd |-> <<>>, arg |-> ""]
Pending == [tag |-> "Pending", crd |-> <<>>, arg |-> ""]

CrdError == {"MissingCrds", "MissingServedApi", "MissingRootVersion",
             "TooManyVersions", "ApiGroupMismatch", "KindMismatch"}

(* ---------------- merge, stage by stage ---------------- *)

(* variant: the length test only looks at the first descriptor *)
OneVersionFirstOnly(cs) == Len(cs[1].spec.versions) = 1

(* variant: the length test is `> 1`, letting an empty Vec through *)
AtMostOneVersionEach(cs) == \A i \in 1..Len(cs) : Len(cs[i].spec.versions) <= 1

(* for crd in crds { if crd.spec.versions.len() != 1 { return Err } } *)
OneVersionEach(cs) == \A i \in 1..Len(cs) : Len(cs[i].spec.versions) = 1

(* crds.iter().find(|c| c.spec.versions[0].name == g), from position i:   *)
(* the index found, 0 for None, -1 when the closure indexes an empty Vec.  *)
RECURSIVE FindFrom(_, _, _)
FindFrom(cs, g, i) ==
  IF i > Len(cs) THEN 0
  ELSE IF Len(cs[i].spec.versions) = 0 THEN -1
  ELSE IF cs[i].spec.versions[1].name = g THEN i
  ELSE FindFrom(cs, g, i + 1)

(* variant: the search starts after the first descriptor *)
FindSkipFirst(cs, g) == FindFrom(cs, g, 2)

(* variant: the search keeps the last match (rfind) *)
FindLast(cs, g) ==
  IF \E i \in 1..Len(cs) : Len(cs[i].spec.versions) = 0 THEN -1
  ELSE IF \A i \in 1..Len(cs) : cs[i].spec.versions[1].name # g THEN 0
  ELSE CHOOSE i \in 1..Len(cs) :
         /\ cs[i].spec.versions[1].name = g
         /\ \A j \in (i + 1)..Len(cs) : cs[j].spec.versions[1].name # g

Find(cs, g) == FindFrom(cs, g, 1)

(* variant: an unmatched root falls back to the first descriptor *)
SelectRootOrFirst(self) ==
  IF Len(self.crds) = 0 THEN Panic
  ELSE IF self.root.tag = "Some" /\ Find(self.crds, self.root.val) > 0
       THEN [tag |-> "Root", idx |-> Find(self.crds, self.root.val)]
       ELSE [tag |-> "Root", idx |-> 1]

(* let mut root = if let Some(g) = self.root { find } else { first }       *)
(* yields [tag |-> "Root", idx], MissingRootVersion(g) or a panic          *)
SelectRoot(self) ==
  IF self.root.tag = "Some"
  THEN LET f == Find(self.crds, self.root.val)
       IN  IF f = -1 THEN Panic
           ELSE IF f = 0 THEN ErrArg("MissingRootVersion", self.root.val)
           ELSE [tag |-> "Root", idx |-> f]
  ELSE IF Len(self.crds) = 0 THEN Panic   \* .next().unwrap() on None
       ELSE [tag |-> "Root", idx |-> 1]

(* validation loop: first offending crd, group compared before kind *)
RECURSIVE ValidateFrom(_, _, _, _)
ValidateFrom(cs, group, kind, i) ==
  IF i > Len(cs) THEN "ok"
  ELSE IF cs[i].spec.group # group THEN "ApiGroupMismatch"
  ELSE IF cs[i].spec.names.kind # kind THEN "KindMismatch"
  ELSE ValidateFrom(cs, group, kind, i + 1)

(* variant: group and kind are compared with the first descriptor's *)
ValidateAgainstFirst(cs, r) == ValidateFrom(cs, cs[1].spec.group, cs[1].spec.names.kind, 1)

Validate(cs, r) == ValidateFrom(cs, r.spec.group, r.spec.names.kind, 1)

(* smash loop: the versions pushed onto the root's, ok = FALSE when an    *)
(* empty Vec is indexed                                                   *)
RECURSIVE SmashFrom(_, _, _, _)
SmashFrom(cs, root_ver, versions, i) ==
  IF i > Len(cs) THEN [ok |-> TRUE, versions |-> versions]
  ELSE IF Len(cs[i].spec.versions) = 0 THEN [ok |-> FALSE, versions |-> versions]
  ELSE IF cs[i].spec.versions[1].name = root_ver
       THEN SmashFrom(cs, root_ver, versions, i + 1)
       ELSE SmashFrom(cs, root_ver, Append(versions, cs[i].spec.versions[1]), i + 1)

(* variant: only the root descriptor itself is skipped, not its namesakes *)
SmashSkipRootOnly(cs, r) ==
  LET others == SelectSeq([i \in 1..Len(cs) |-> cs[i].spec.versions[1]], LAMBDA v : v # r.spec.versions[1])
  IN  [ok |-> TRUE, versions |-> r.spec.versions \o others]

Smash(cs, r) == SmashFrom(cs, r.spec.versions[1].name, r.spec.versions, 1)

(* variant: the served selector is looked up in the merged versions *)
ConsolidateCheckServed(self, r) ==
  LET s == Smash(self.crds, r)
  IN  IF ~s.ok THEN Panic
      ELSE IF self.served.tag = "Some"
              /\ \A i \in 1..Len(s.versions) : s.versions[i].name # self.served.val
           THEN ErrArg("MissingServedApi", self.served.val)
           ELSE Ok([r EXCEPT !.spec.versions = s.versions])

(* validation ok, smash them together: Ok(root) with the pushed versions *)
Consolidate(self, r) ==
  LET s == Smash(self.crds, r)
  IN  IF ~s.ok THEN Panic
      ELSE Ok([r EXCEPT !.spec.versions = s.versions])

(* variant: the emptiness test is missing *)
IsEmptyUnchecked(cs) == FALSE

(* if self.crds.is_empty() { return Err(CrdError::MissingCrds) } *)
IsEmpty(cs) == Len(cs) = 0

merge(self) ==
  IF IsEmpty(self.crds) THEN Err("MissingCrds")
  ELSE IF ~OneVersionEach(self.crds) THEN Err("TooManyVersions")
  ELSE LET sel == SelectRoot(self)
       IN  IF sel.tag # "Root" THEN sel
           ELSE LET r == self.crds[sel.idx]
                IN  IF Len(r.spec.versions) = 0 THEN Panic  \* root.spec.versions[0]
                    ELSE LET v == Validate(self.crds, r)
                         IN  IF v # "ok" THEN Err(v)
                             ELSE Consolidate(self, r)

(* ---------------- the builder as a state machine ---------------- *)
Self == [crds |-> crds, served |-> served, root |-> root]

Metas == { <<"x", "Foo", "foos">>, <<"x", "Foo", "fooz">>, <<"y", "Foo", "foos">>,
           <<"x", "Bar", "foos">>, <<"y", "Bar", "foos">> }

Versions == { Version(n, s) : n \in VersionNames, s \in Schemas }

RECURSIVE SeqsUpTo(_, _)
SeqsUpTo(S, n) ==
  IF n = 0 THEN { <<>> }
  ELSE LET T == SeqsUpTo(S, n - 1)
       IN  T \cup { Append(t, x) : t \in { u \in T : Len(u) = n - 1 }, x \in S }

(* inputs as kube-derive emits them: one version per descriptor *)
SingleVersionCrds == { Crd(m[1], m[2], m[3], <<v>>) : m \in Metas, v \in Versions }

(* inputs the caller may also hand over: zero or several versions *)
AnyMetas == { <<"x", "Foo", "foos">>, <<"y", "Foo", "foos">>, <<"x", "Bar", "foos">> }

(* a version list of length k led by name n, the names alternating after it *)
OtherName(n) == CHOOSE m \in VersionNames : m # n
VersionList(n, k) == [i \in 1..k |-> Version(IF i % 2 = 1 THEN n ELSE OtherName(n), "s1")]

AnyVersionCrds ==
  { Crd(m[1], m[2], m[3], vs) :
      m \in AnyMetas,
      vs \in {<<>>} \cup { VersionList(n, k) : n \in VersionNames, k \in 1..MaxVersions } }

Init ==
  /\ crds \in SeqsUpTo(SingleVersionCrds, MaxCrds)
  /\ served = None
  /\ root = None
  /\ pc = "new"
  /\ result = Pending

Served(s) ==
  /\ pc = "new"
  /\ served' = Some(s)
  /\ UNCHANGED <<crds, root, pc, result>>

Root(r) ==
  /\ pc = "new"
  /\ root' = Some(r)
  /\ UNCHANGED <<crds, served, pc, result>>

Merge ==
  /\ pc = "new"
  /\ result' = merge(Self)
  /\ pc' = "merged"
  /\ UNCHANGED <<crds, served, root>>

Next ==
  \/ \E s \in VersionNames : Served(s)
  \/ \E r \in VersionNames : Root(r)
  \/ Merge

Spec == Init /\ [][Next]_vars

InitAny ==
  /\ crds \in SeqsUpTo(AnyVersionCrds, MaxCrds)
  /\ served = None
  /\ root = None
  /\ pc = "new"
  /\ result = Pending

SpecAny == InitAny /\ [][Next]_vars

(* ---------------- vocabulary of the properties ---------------- *)
Merged == pc = "merged"
NonEmpty == Len(crds) > 0
AllSingle == \A i \in 1..Len(crds) : Len(crds[i].spec.versions) = 1
NameOf(i) == crds[i].spec.versions[1].name
GroupOf(i) == crds[i].spec.group
KindOf(i) == crds[i].spec.names.kind
RootNamed == root.tag = "Some" /\ \E i \in 1..Len(crds) : NameOf(i) = root.val
RootResolves == root.tag = "None" \/ RootNamed

(* the root: first input named `root` when set, first input otherwise *)
RootIdx ==
  IF root.tag = "None" THEN 1
  ELSE CHOOSE i \in 1..Len(crds) :
         NameOf(i) = root.val /\ \A j \in 1..(i - 1) : NameOf(j) # root.val

RootCrd == crds[RootIdx]
RootVersion == RootCrd.spec.versions[1]
Differs(i) == GroupOf(i) # RootCrd.spec.group \/ KindOf(i) # RootCrd.spec.names.kind
Agree == \A i \in 1..Len(crds) : ~Differs(i)
InputVersions == [i \in 1..Len(crds) |-> crds[i].spec.versions[1]]
OutVersions == result.crd.spec.versions
NamesOf(vs) == [i \in 1..Len(vs) |-> vs[i].name]
NameSet(vs) == { vs[i].name : i \in 1..Len(vs) }
NotRootName(v) == v.name # RootVersion.name

TypeOK ==
  /\ pc \in {"new", "merged"}
  /\ served \in {None} \cup { Some(s) : s \in VersionNames }
  /\ root \in {None} \cup { Some(r) : r \in VersionNames }
  /\ (pc = "new") <=> (result = Pending)

(* C1: for a non-empty list of one-version descriptors that all carry the  *)
(* root's group and kind, merge returns Ok and the version sequence is the *)
(* root's version followed by, in input order, the version of every input  *)
(* whose name differs from the root's name.                                *)
C1_RootThenOthersInOrder ==
  (Merged /\ NonEmpty /\ AllSingle /\ RootResolves /\ Agree)
    => /\ result.tag = "Ok"
       /\ OutVersions = <<RootVersion>> \o SelectSeq(InputVersions, NotRootName)

C1_Witness ==
  /\ Merged /\ result.tag = "Ok" /\ root = Some("v2")
  /\ Len(crds) = 3 /\ AllSingle
  /\ NamesOf(InputVersions) = <<"v1", "v2", "v2">>
  /\ crds[2].spec.versions[1] # crds[3].spec.versions[1]
  /\ NamesOf(OutVersions) = <<"v2", "v1">>

(* names of a sequence in order of first appearance *)
RECURSIVE FirstSeen(_)
FirstSeen(ns) ==
  IF Len(ns) = 0 THEN <<>>
  ELSE LET init == FirstSeen(SubSeq(ns, 1, Len(ns) - 1))
           last == ns[Len(ns)]
       IN  IF \E i \in 1..Len(init) : init[i] = last THEN init ELSE Append(init, last)

IsNotRootName(n) == n # RootVersion.name

(* C2: on every successful merge the output holds exactly one entry per    *)
(* distinct input version name: the root's first, then the other names in  *)
(* order of first appearance, no name twice.                               *)
C2_OneEntryPerDistinctName ==
  (Merged /\ result.tag = "Ok")
    => NamesOf(OutVersions) =
         <<RootVersion.name>> \o SelectSeq(FirstSeen(NamesOf(InputVersions)), IsNotRootName)

(* C3: a descriptor with zero or several versions anywhere in a non-empty  *)
(* list makes merge return TooManyVersions, whatever root, group and kind. *)
C3_TooManyVersionsFirst ==
  (Merged /\ NonEmpty /\ ~AllSingle) => result = Err("TooManyVersions")

C3_Witness ==
  /\ Merged /\ Len(crds) = 3 /\ root = Some("v2")
  /\ Len(crds[1].spec.versions) = 1 /\ NameOf(1) = "v1"
  /\ Len(crds[2].spec.versions) = 1 /\ NameOf(2) = "v1"
  /\ GroupOf(2) # GroupOf(1)
  /\ Len(crds[3].spec.versions) = 2
  /\ result.tag = "TooManyVersions"

(* C4: with a non-empty list of one-version descriptors and root set,      *)
(* merge returns MissingRootVersion(root) when no input bears that name    *)
(* (even if groups or kinds disagree) and never when some input does.      *)
C4_MissingRootVersion ==
  (Merged /\ NonEmpty /\ AllSingle /\ root.tag = "Some")
    => /\ ~RootNamed => result = ErrArg("MissingRootVersion", root.val)
       /\ RootNamed => result.tag # "MissingRootVersion"

C4_Witness ==
  /\ Merged /\ Len(crds) = 2 /\ AllSingle /\ root = Some("v2")
  /\ NameOf(1) = "v1" /\ NameOf(2) = "v1"
  /\ GroupOf(1) # GroupOf(2)
  /\ result = ErrArg("MissingRootVersion", "v2")

(* C5 as stated: past the first three checks, any input whose group        *)
(* differs from the root's gives ApiGroupMismatch, and a kind difference   *)
(* with all groups equal gives KindMismatch.                               *)
C5_AsStated ==
  (Merged /\ NonEmpty /\ AllSingle /\ RootResolves)
    => /\ (\E i \in 1..Len(crds) : GroupOf(i) # RootCrd.spec.group)
            => result.tag = "ApiGroupMismatch"
       /\ ((\E i \in 1..Len(crds) : KindOf(i) # RootCrd.spec.names.kind)
             /\ (\A i \in 1..Len(crds) : GroupOf(i) = RootCrd.spec.group))
            => result.tag = "KindMismatch"

FirstDiffering == CHOOSE i \in 1..Len(crds) : Differs(i) /\ \A j \in 1..(i - 1) : ~Differs(j)

(* C5: past the first three checks, if some input differs from the         *)
(* selected root in group or kind, the first such input in list order      *)
(* decides: ApiGroupMismatch when its group differs, KindMismatch when its *)
(* group equals the root's and its kind differs.                           *)
C5_FirstDifferingDecides ==
  (Merged /\ NonEmpty /\ AllSingle /\ RootResolves /\ ~Agree)
    => /\ GroupOf(FirstDiffering) # RootCrd.spec.group => result = Err("ApiGroupMismatch")
       /\ GroupOf(FirstDiffering) = RootCrd.spec.group => result = Err("KindMismatch")

C5_Witness ==
  /\ Merged /\ Len(crds) = 3 /\ AllSingle /\ root = Some("v2")
  /\ NamesOf(InputVersions) = <<"v1", "v1", "v2">>
  /\ GroupOf(1) = GroupOf(3) /\ KindOf(1) # KindOf(3)
  /\ GroupOf(2) # GroupOf(3)
  /\ result.tag = "KindMismatch"

(* C6: merge of an empty list returns MissingCrds whatever root and served *)
C6_EmptyListMissingCrds ==
  (Merged /\ Len(crds) = 0) => result = Err("MissingCrds")

C6_Witness ==
  /\ Merged /\ Len(crds) = 0 /\ root.tag = "Some" /\ served.tag = "Some"
  /\ result.tag = "MissingCrds"

(* the output split into single-version descriptors with its own metadata *)
Split(c) == [i \in 1..Len(c.spec.versions) |-> [c EXCEPT !.spec.versions = <<c.spec.versions[i]>>]]
Remerged == merge([crds |-> Split(result.crd), served |-> served, root |-> root])

(* C7: re-merging the split output of a successful merge with the same     *)
(* root succeeds and yields the same set of version names.                 *)
C7_IdempotentOnNames ==
  (Merged /\ result.tag = "Ok")
    => /\ Remerged.tag = "Ok"
       /\ NameSet(Remerged.crd.spec.versions) = NameSet(OutVersions)

C7_Witness ==
  /\ Merged /\ result.tag = "Ok" /\ root = Some("v2")
  /\ NamesOf(OutVersions) = <<"v2", "v1", "v1">>
  /\ Remerged.tag = "Ok"

(* C8: the result is the one merge gives with served unset, and is never   *)
(* MissingServedApi.                                                       *)
C8_ServedIgnored ==
  Merged => /\ result = merge([crds |-> crds, served |-> None, root |-> root])
            /\ result.tag # "MissingServedApi"

C8_Witness ==
  /\ Merged /\ served = Some("v2") /\ result.tag = "Ok"
  /\ "v2" \notin NameSet(OutVersions)

(* C9: a successful merge carries the selected root's metadata, its first  *)
(* version entry is the root's own, and every entry is an unmodified copy  *)
(* of some input's version entry.                                          *)
C9_RootMetadataAndCopies ==
  (Merged /\ result.tag = "Ok")
    => /\ result.crd.spec.group = RootCrd.spec.group
       /\ result.crd.spec.names = RootCrd.spec.names
       /\ OutVersions[1] = RootVersion
       /\ \A k \in 1..Len(OutVersions) : \E i \in 1..Len(crds) : OutVersions[k] = InputVersions[i]
       /\ \A k \in 2..Len(OutVersions) : OutVersions[k].name # RootVersion.name

C9_Witness ==
  /\ Merged /\ result.tag = "Ok" /\ root = Some("v2") /\ Len(crds) = 3
  /\ NamesOf(InputVersions) = <<"v1", "v2", "v2">>
  /\ InputVersions[2] # InputVersions[3]
  /\ crds[1].spec.names # crds[2].spec.names
  /\ crds[3].spec.names # crds[2].spec.names

ChecksPass == NonEmpty /\ AllSingle /\ RootResolves /\ Agree

(* C10: merge never panics: every call returns Ok or one of the five       *)
(* errors it constructs, and Ok exactly when the four checks pass.         *)
C10_NoPanic ==
  Merged => /\ result.tag # "Panic"
            /\ result.tag \in {"Ok", "MissingCrds", "TooManyVersions", "MissingRootVersion",
                                "ApiGroupMismatch", "KindMismatch"}
            /\ (result.tag = "Ok") <=> ChecksPass

C10_Witness ==
  /\ Merged /\ Len(crds) = 2 /\ root = Some("v1")
  /\ Len(crds[1].spec.versions) = 0
  /\ Len(crds[2].spec.versions) = 1
  /\ result.tag = "TooManyVersions"
====
